---- MODULE Spec2Model ----
(***************************************************************************)
(* A model of netkit_cisco: the CiscoDevice fact snapshot, its SSH session *)
(* state, and the auto_discovery pipeline with the version parsers and     *)
(* StorageInfo it builds on.                                               *)
(*                                                                         *)
(* Python values are records of one shape [t, s, n, items, d]; strings are *)
(* sequences of one-character strings so that the regular expressions,     *)
(* int() and str.split() are computed rather than assumed.                 *)
(***************************************************************************)
EXTENDS Integers, Sequences, FiniteSets, TLC

\* ------------------------------------------------------------------ bounds
\* Number of auto_discovery runs explored on one device.
MaxRuns == 2
\* Number of ssh_connect calls explored on one device.
MaxConnects == 2

\* ----------------------------------------------------------- Python values
EmptyDict == [k \in {} |-> 0]

PyNone == [t |-> "None", s |-> <<>>, n |-> 0, items |-> <<>>, d |-> EmptyDict]

PyStr(chars) == [t |-> "str", s |-> chars, n |-> 0, items |-> <<>>, d |-> EmptyDict]

PyInt(k) == [t |-> "int", s |-> <<>>, n |-> k, items |-> <<>>, d |-> EmptyDict]

PyList(elems) == [t |-> "list", s |-> <<>>, n |-> 0, items |-> elems, d |-> EmptyDict]

PyDict(map) == [t |-> "dict", s |-> <<>>, n |-> 0, items |-> <<>>, d |-> map]

\* Python truthiness, as used by `a or b`.
Truthy(v) ==
    CASE v.t = "None" -> FALSE
      [] v.t = "str"  -> Len(v.s) > 0
      [] v.t = "int"  -> v.n # 0
      [] v.t = "list" -> Len(v.items) > 0
      [] v.t = "dict" -> DOMAIN v.d # {}
      [] OTHER        -> TRUE

\* Python `a or b`.
PyOr(a, b) == IF Truthy(a) THEN a ELSE b

\* isinstance(v, dict) with None let through as well.
IsDictOrNone(v) == v.t \in {"dict", "None"}

\* isinstance(v, dict)
IsDict(v) == v.t = "dict"

\* A path step of _safe_get: a mapping key or a sequence index.
Key(name) == [t |-> "key", k |-> name, i |-> 0]

Idx(pos) == [t |-> "idx", k |-> "", i |-> pos]

\* An instance of `object`, as used for a sentinel default.
PyObject == [t |-> "object", s |-> <<>>, n |-> 0, items |-> <<>>, d |-> EmptyDict]

\* The position of index i in a sequence of length len, counted from 1; a
\* negative index counts from the end; 0 when the index is out of range.
SeqPos(i, len) ==
    IF 0 <= i /\ i < len THEN i + 1
    ELSE IF i < 0 /\ 0 - len <= i THEN len + i + 1
    ELSE 0

\* current[index_key]: ok, or KeyError / IndexError / TypeError.
GetItem(current, step) ==
    CASE current.t = "dict" ->
            IF step.t = "key" /\ step.k \in DOMAIN current.d
            THEN [ok |-> TRUE, v |-> current.d[step.k]]
            ELSE [ok |-> FALSE, v |-> PyNone]
      [] current.t = "list" ->
            IF step.t = "idx" /\ SeqPos(step.i, Len(current.items)) # 0
            THEN [ok |-> TRUE, v |-> current.items[SeqPos(step.i, Len(current.items))]]
            ELSE [ok |-> FALSE, v |-> PyNone]
      [] current.t = "str" ->
            IF step.t = "idx" /\ SeqPos(step.i, Len(current.s)) # 0
            THEN [ok |-> TRUE, v |-> PyStr(<<current.s[SeqPos(step.i, Len(current.s))]>>)]
            ELSE [ok |-> FALSE, v |-> PyNone]
      [] OTHER -> [ok |-> FALSE, v |-> PyNone]

RECURSIVE _safe_get_loopNone(_, _, _, _)
\* The loop returning None, not `default`, when a step fails.
_safe_get_loopNone(current, tuple_path, default, log_path) ==
    IF tuple_path = <<>> THEN [v |-> current, logged |-> FALSE]
    ELSE LET r == GetItem(current, Head(tuple_path))
         IN  IF r.ok
             THEN _safe_get_loopNone(r.v, Tail(tuple_path), default, log_path)
             ELSE [v |-> PyNone, logged |-> Truthy(log_path)]

RECURSIVE _safe_get_loop(_, _, _, _)
\* The loop of _safe_get from `current` on: [v, logged], v the value returned
\* and logged whether log_info was called (a failed step with a log_path).
_safe_get_loop(current, tuple_path, default, log_path) ==
    IF tuple_path = <<>> THEN [v |-> current, logged |-> FALSE]
    ELSE LET r == GetItem(current, Head(tuple_path))
         IN  IF r.ok
             THEN _safe_get_loop(r.v, Tail(tuple_path), default, log_path)
             ELSE [v |-> default, logged |-> Truthy(log_path)]

\* CiscoDevice._safe_get: the value returned for `source`, `tuple_path` and
\* `default`; the value does not depend on log_path.
_safe_get(source, tuple_path, default) ==
    _safe_get_loop(source, tuple_path, default, PyNone).v

\* ------------------------------------------------------------- characters
Digits == {"0", "1", "2", "3", "4", "5", "6", "7", "8", "9"}

Lower == {"a", "b", "c", "d", "e", "f", "g", "h", "i", "j", "k", "l", "m",
          "n", "o", "p", "q", "r", "s", "t", "u", "v", "w", "x", "y", "z"}

Upper == {"A", "B", "C", "D", "E", "F", "G", "H", "I", "J", "K", "L", "M",
          "N", "O", "P", "Q", "R", "S", "T", "U", "V", "W", "X", "Y", "Z"}

\* Whitespace removed by str.strip() and skipped by the JSON decoder.
Space == {" ", "\n", "\t", "\r"}

DigitVal(c) ==
    CASE c = "0" -> 0 [] c = "1" -> 1 [] c = "2" -> 2 [] c = "3" -> 3
      [] c = "4" -> 4 [] c = "5" -> 5 [] c = "6" -> 6 [] c = "7" -> 7
      [] c = "8" -> 8 [] c = "9" -> 9

\* Python slice chars[a-1:b]: positions a..b, clipped to the string.
Slice(chars, a, b) ==
    LET lo == IF a < 1 THEN 1 ELSE a
        hi == IF b > Len(chars) THEN Len(chars) ELSE b
    IN  IF lo > hi THEN <<>> ELSE SubSeq(chars, lo, hi)

RECURSIVE ToIntUpTo(_, _)
\* The decimal value of the first n characters of a run of digits.
ToIntUpTo(chars, n) ==
    IF n = 0 THEN 0 ELSE 10 * ToIntUpTo(chars, n - 1) + DigitVal(chars[n])

\* int() of a run of decimal digits.
ToInt(chars) == ToIntUpTo(chars, Len(chars))

RECURSIVE DigitRun(_, _, _)
\* Length of the run of digits of `chars` starting at position i, at most max.
DigitRun(chars, i, max) ==
    IF max = 0 \/ i > Len(chars) \/ chars[i] \notin Digits THEN 0
    ELSE 1 + DigitRun(chars, i + 1, max - 1)

\* chars[i] = c, false past the end.
CharAt(chars, i, c) == i \in DOMAIN chars /\ chars[i] = c

\* `$`: the end of the string, or just before a newline that ends the string.
AtEnd(chars, i) == i = Len(chars) + 1 \/ (i = Len(chars) /\ chars[i] = "\n")

RECURSIVE LStripPos(_, _)
\* The first position at or after i that holds no whitespace.
LStripPos(chars, i) ==
    IF i \in DOMAIN chars /\ chars[i] \in Space THEN LStripPos(chars, i + 1) ELSE i

RECURSIVE RStripPos(_, _)
\* The last position at or before i that holds no whitespace.
RStripPos(chars, i) ==
    IF i \in DOMAIN chars /\ chars[i] \in Space THEN RStripPos(chars, i - 1) ELSE i

\* str.strip()
Strip(chars) == Slice(chars, LStripPos(chars, 1), RStripPos(chars, Len(chars)))

ToLowerChar(c) ==
    IF c \in Upper
    THEN CHOOSE l \in Lower :
            \E i \in 1..26 :
               /\ <<"A","B","C","D","E","F","G","H","I","J","K","L","M",
                    "N","O","P","Q","R","S","T","U","V","W","X","Y","Z">>[i] = c
               /\ <<"a","b","c","d","e","f","g","h","i","j","k","l","m",
                    "n","o","p","q","r","s","t","u","v","w","x","y","z">>[i] = l
    ELSE c

\* str.lower()
ToLower(chars) == [i \in DOMAIN chars |-> ToLowerChar(chars[i])]

\* str.endswith(suffix)
EndsWith(chars, suffix) ==
    /\ Len(chars) >= Len(suffix)
    /\ Slice(chars, Len(chars) - Len(suffix) + 1, Len(chars)) = suffix

RECURSIVE FindChar(_, _, _)
\* Position of the first c in chars at or after i, 0 when there is none.
FindChar(chars, c, i) ==
    IF i > Len(chars) THEN 0
    ELSE IF chars[i] = c THEN i ELSE FindChar(chars, c, i + 1)

\* chars.split(sep, 1)[0]: the text before the first sep.
SplitFirst(chars, sep) ==
    LET p == FindChar(chars, sep, 1)
    IN  IF p = 0 THEN chars ELSE Slice(chars, 1, p - 1)

\* ---------------------------------------------------------------- _enums
INSTALL == "INSTALL"

BUNDLE == "BUNDLE"

UNKNOWN == "UNKNOWN"

NA == "N/A"

InstallMode == {INSTALL, BUNDLE, UNKNOWN, NA}

\* -------------------------------------------------------------------- os.py
\* Every intermediate result of the matchers below is bound once, through a
\* one-element set, before it is used.

\* The groups of the IOS-XE pattern once the three digit runs a, b, c are known.
IOSXEGroups(chars, a, b, c) ==
    LET p  == a + b + c + 3
        hd == /\ a >= 1 /\ CharAt(chars, a + 1, ".")
              /\ b >= 1 /\ CharAt(chars, a + b + 2, ".")
              /\ c >= 1
        g1 == Slice(chars, 1, a)
        g2 == Slice(chars, a + 2, a + b + 1)
        g3 == Slice(chars, a + b + 3, a + b + c + 2)
    IN  IF hd /\ p \in DOMAIN chars /\ chars[p] \in Lower /\ AtEnd(chars, p + 1)
        THEN [ok |-> TRUE, g1 |-> g1, g2 |-> g2, g3 |-> g3, g4 |-> <<chars[p]>>]
        ELSE IF hd /\ AtEnd(chars, p)
        THEN [ok |-> TRUE, g1 |-> g1, g2 |-> g2, g3 |-> g3, g4 |-> <<>>]
        ELSE [ok |-> FALSE, g1 |-> <<>>, g2 |-> <<>>, g3 |-> <<>>, g4 |-> <<>>]

\* re.match(r"^(\d{1,2})\.(\d{1,2})\.(\d{1,2})([a-z])?$", raw)
IOSXEMatch(chars) ==
    CHOOSE m \in
        UNION {UNION {{IOSXEGroups(chars, a, b, c)
                       : c \in {DigitRun(chars, a + b + 3, 2)}}
                      : b \in {DigitRun(chars, a + 2, 2)}}
               : a \in {DigitRun(chars, 1, 2)}} : TRUE

\* IOSXEVersion.__init__ with groups 2 and 3 assigned the wrong way round.
IOSXEVersionSwapped(chars) ==
    CHOOSE obj \in
        {[cls |-> "IOSXEVersion", raw |-> chars, family |-> "IOS-XE",
          major |-> IF value.ok THEN ToInt(value.g1) ELSE 0,
          minor |-> IF value.ok THEN ToInt(value.g3) ELSE 0,
          patch |-> IF value.ok THEN ToInt(value.g2) ELSE 0,
          rebuild_letter |-> IF value.ok THEN value.g4 ELSE <<>>,
          install_mode |-> UNKNOWN]
         : value \in {IOSXEMatch(chars)}} : TRUE

\* IOSXEVersion.__init__ on a str; major 0 is the "did not parse" sentinel.
IOSXEVersion(chars) ==
    CHOOSE obj \in
        {[cls |-> "IOSXEVersion", raw |-> chars, family |-> "IOS-XE",
          major |-> IF value.ok THEN ToInt(value.g1) ELSE 0,
          minor |-> IF value.ok THEN ToInt(value.g2) ELSE 0,
          patch |-> IF value.ok THEN ToInt(value.g3) ELSE 0,
          rebuild_letter |-> IF value.ok THEN value.g4 ELSE <<>>,
          install_mode |-> UNKNOWN]
         : value \in {IOSXEMatch(chars)}} : TRUE

\* The common head ^(\d+)\.(\d+)\((\d+)\) of both NX-OS patterns once the
\* digit runs are known; `next` is the position after the closing parenthesis.
NXOSHeadGroups(chars, a, b, c) ==
    [ok   |-> /\ a >= 1 /\ CharAt(chars, a + 1, ".")
              /\ b >= 1 /\ CharAt(chars, a + b + 2, "(")
              /\ c >= 1 /\ CharAt(chars, a + b + c + 3, ")"),
     g1   |-> Slice(chars, 1, a),
     g2   |-> Slice(chars, a + 2, a + b + 1),
     g3   |-> Slice(chars, a + b + 3, a + b + c + 2),
     next |-> a + b + c + 4]

NXOSHead(chars) ==
    CHOOSE h \in
        UNION {UNION {{NXOSHeadGroups(chars, a, b, c)
                       : c \in {DigitRun(chars, a + b + 3, Len(chars) + 1)}}
                      : b \in {DigitRun(chars, a + 2, Len(chars) + 1)}}
               : a \in {DigitRun(chars, 1, Len(chars) + 1)}} : TRUE

\* The groups of the train pattern after the head h, r being the digit run
\* of the optional rebuild.
NXOSTrainGroups(chars, h, r) ==
    LET p   == h.next
        tr  == /\ h.ok /\ CharAt(chars, p, "I")
               /\ p + 1 \in DOMAIN chars /\ chars[p + 1] \in Digits
        q   == p + 2
        reb == /\ CharAt(chars, q, "(") /\ r >= 1 /\ CharAt(chars, q + r + 1, ")")
               /\ AtEnd(chars, q + r + 2)
    IN  IF tr /\ reb
        THEN [ok |-> TRUE, g1 |-> h.g1, g2 |-> h.g2, g3 |-> h.g3,
              g4 |-> Slice(chars, p, p + 1), g5 |-> Slice(chars, q + 1, q + r)]
        ELSE IF tr /\ AtEnd(chars, q)
        THEN [ok |-> TRUE, g1 |-> h.g1, g2 |-> h.g2, g3 |-> h.g3,
              g4 |-> Slice(chars, p, p + 1), g5 |-> <<>>]
        ELSE [ok |-> FALSE, g1 |-> <<>>, g2 |-> <<>>, g3 |-> <<>>,
              g4 |-> <<>>, g5 |-> <<>>]

\* re.match(r"^(\d+)\.(\d+)\((\d+)\)(I\d)(?:\((\d+)\))?$", raw)
NXOSTrainMatch(chars) ==
    CHOOSE m \in
        UNION {{NXOSTrainGroups(chars, h, r)
                : r \in {DigitRun(chars, h.next + 3, Len(chars) + 1)}}
               : h \in {NXOSHead(chars)}} : TRUE

\* The groups of the simple pattern after the head h.
NXOSSimpleGroups(chars, h) ==
    LET p == h.next
    IN  IF h.ok /\ p \in DOMAIN chars /\ chars[p] \in Upper /\ AtEnd(chars, p + 1)
        THEN [ok |-> TRUE, g1 |-> h.g1, g2 |-> h.g2, g3 |-> h.g3, g4 |-> <<chars[p]>>]
        ELSE IF h.ok /\ AtEnd(chars, p)
        THEN [ok |-> TRUE, g1 |-> h.g1, g2 |-> h.g2, g3 |-> h.g3, g4 |-> <<>>]
        ELSE [ok |-> FALSE, g1 |-> <<>>, g2 |-> <<>>, g3 |-> <<>>, g4 |-> <<>>]

\* re.match(r"^(\d+)\.(\d+)\((\d+)\)([A-Z])?$", raw)
NXOSSimpleMatch(chars) ==
    CHOOSE m \in {NXOSSimpleGroups(chars, h) : h \in {NXOSHead(chars)}} : TRUE

\* NXOSVersion.__init__ on a str: the train pattern first, then the simple one.
NXOSVersion(chars) ==
    CHOOSE obj \in
        {[cls |-> "NXOSVersion", raw |-> chars, family |-> "NX-OS",
          major |-> IF tv.ok THEN ToInt(tv.g1) ELSE IF sv.ok THEN ToInt(sv.g1) ELSE 0,
          minor |-> IF tv.ok THEN ToInt(tv.g2) ELSE IF sv.ok THEN ToInt(sv.g2) ELSE 0,
          maintenance |-> IF tv.ok THEN ToInt(tv.g3) ELSE IF sv.ok THEN ToInt(sv.g3) ELSE 0,
          train |-> IF tv.ok THEN tv.g4 ELSE <<>>,
          rebuild |-> IF tv.ok /\ tv.g5 # <<>> THEN ToInt(tv.g5) ELSE 0,
          suffix |-> IF ~tv.ok /\ sv.ok THEN sv.g4 ELSE <<>>,
          install_mode |-> NA]
         : tv \in {NXOSTrainMatch(chars)}, sv \in {NXOSSimpleMatch(chars)}} : TRUE

\* The absent version (Python None) and an attribute that was never assigned.
NoVersion == [cls |-> "None"]

NoAttr == [cls |-> "unassigned"]

\* The first of the two objects whose major is not 0, else None.
FirstParsed(x, y) ==
    IF x.major # 0 THEN [err |-> "", v |-> x]
    ELSE IF y.major # 0 THEN [err |-> "", v |-> y]
    ELSE [err |-> "", v |-> NoVersion]

\* parse_version: [err, v]; re.match raises TypeError on anything but a str.
parse_version(raw) ==
    IF raw.t # "str" THEN [err |-> "TypeError", v |-> NoVersion]
    ELSE CHOOSE out \in
            {FirstParsed(x, y)
             : x \in {IOSXEVersion(raw.s)}, y \in {NXOSVersion(raw.s)}} : TRUE

\* The mode assigned when the image name is not lowered before the match.
IOSXEInstallModeCaseSensitive(chars) ==
    LET img == Strip(chars)
    IN  IF EndsWith(img, <<".", "c", "o", "n", "f">>) THEN INSTALL
        ELSE IF EndsWith(img, <<".", "b", "i", "n">>) THEN BUNDLE
        ELSE UNKNOWN

\* IOSXEVersion.set_install_mode, the mode it assigns for a str image name.
IOSXEInstallMode(chars) ==
    LET img == ToLower(Strip(chars))
    IN  IF EndsWith(img, <<".", "c", "o", "n", "f">>) THEN INSTALL
        ELSE IF EndsWith(img, <<".", "b", "i", "n">>) THEN BUNDLE
        ELSE UNKNOWN

\* NXOSVersion.set_install_mode, the mode it assigns whatever the argument.
NXOSInstallMode(image_value) == NA

\* self.os.set_install_mode(image_value): [err, v] with v the updated object.
set_install_mode(obj, image_value) ==
    CASE obj.cls = "IOSXEVersion" ->
            IF image_value.t # "str" THEN [err |-> "AttributeError", v |-> obj]
            ELSE [err |-> "", v |-> [obj EXCEPT !.install_mode = IOSXEInstallMode(image_value.s)]]
      [] obj.cls = "NXOSVersion" ->
            [err |-> "", v |-> [obj EXCEPT !.install_mode = NXOSInstallMode(image_value)]]
      [] OTHER -> [err |-> "AttributeError", v |-> obj]

\* The characters of the version strings in code point order.
CodePoints ==
    <<"0", "1", "2", "3", "4", "5", "6", "7", "8", "9",
      "A", "B", "C", "D", "E", "F", "G", "H", "I", "J", "K", "L", "M",
      "N", "O", "P", "Q", "R", "S", "T", "U", "V", "W", "X", "Y", "Z",
      "a", "b", "c", "d", "e", "f", "g", "h", "i", "j", "k", "l", "m",
      "n", "o", "p", "q", "r", "s", "t", "u", "v", "w", "x", "y", "z">>

\* The rank of a character in code point order.
Ord(c) == CHOOSE i \in DOMAIN CodePoints : CodePoints[i] = c

RECURSIVE StrGreaterFrom(_, _, _)
\* x > y for two str that agree before position i.
StrGreaterFrom(x, y, i) ==
    IF i > Len(x) THEN FALSE
    ELSE IF i > Len(y) THEN TRUE
    ELSE IF x[i] = y[i] THEN StrGreaterFrom(x, y, i + 1)
    ELSE Ord(x[i]) > Ord(y[i])

\* a > b for two int or two str.
PyGreater(a, b) ==
    IF a.t = "int" THEN a.n > b.n ELSE StrGreaterFrom(a.s, b.s, 1)

RECURSIVE TupleGreaterFrom(_, _, _)
\* xs > ys for two tuples that agree before position i: the first position
\* where they differ decides.
TupleGreaterFrom(xs, ys, i) ==
    IF i > Len(xs) THEN FALSE
    ELSE IF i > Len(ys) THEN TRUE
    ELSE IF xs[i] = ys[i] THEN TupleGreaterFrom(xs, ys, i + 1)
    ELSE PyGreater(xs[i], ys[i])

\* The attributes is_newer_than reads from both objects, in order, by class.
CompareFields(cls) ==
    IF cls = "IOSXEVersion"
    THEN <<"major", "minor", "patch", "rebuild_letter">>
    ELSE <<"major", "minor", "maintenance", "train", "rebuild", "suffix">>

\* The tuple of an object's attributes named by `names`.
FieldTuple(obj, names) ==
    [i \in DOMAIN names |->
        IF names[i] \in {"rebuild_letter", "train", "suffix"}
        THEN PyStr(obj[names[i]]) ELSE PyInt(obj[names[i]])]

\* is_newer_than comparing only the attributes both classes have.
is_newer_thanShared(self, other) ==
    IF {"major", "minor"} \subseteq DOMAIN other
    THEN [err |-> "",
          v |-> TupleGreaterFrom(FieldTuple(self, <<"major", "minor">>),
                                 FieldTuple(other, <<"major", "minor">>), 1)]
    ELSE [err |-> "AttributeError", v |-> FALSE]

\* is_newer_than with >= in place of >.
is_newer_thanOrEqual(self, other) ==
    LET names == CompareFields(self.cls)
    IN  IF \A i \in DOMAIN names : names[i] \in DOMAIN other
        THEN [err |-> "",
              v |-> \/ FieldTuple(self, names) = FieldTuple(other, names)
                    \/ TupleGreaterFrom(FieldTuple(self, names),
                                        FieldTuple(other, names), 1)]
        ELSE [err |-> "AttributeError", v |-> FALSE]

\* self.is_newer_than(other): [err, v]; an attribute `other` lacks raises
\* AttributeError while the second tuple is built.
is_newer_than(self, other) ==
    LET names == CompareFields(self.cls)
    IN  IF \A i \in DOMAIN names : names[i] \in DOMAIN other
        THEN [err |-> "",
              v |-> TupleGreaterFrom(FieldTuple(self, names),
                                     FieldTuple(other, names), 1)]
        ELSE [err |-> "AttributeError", v |-> FALSE]

\* --------------------------------------------------------------- storage.py
\* StorageInfo.__init__
StorageInfo(name, total_free_B, total_size_B) ==
    [cls |-> "StorageInfo", name |-> name,
     total_size_B |-> total_size_B, total_free_B |-> total_free_B]

\* has_space with > in place of >=.
has_spaceStrict(st, required_bytes) ==
    IF st.total_free_B.t = "int" /\ required_bytes.t = "int"
    THEN [err |-> "", v |-> st.total_free_B.n > required_bytes.n, self |-> st]
    ELSE [err |-> "TypeError", v |-> FALSE, self |-> st]

\* StorageInfo.has_space: [err, v, self], self being the object after the
\* call; comparing None with an int raises TypeError.
has_space(st, required_bytes) ==
    IF st.total_free_B.t = "int" /\ required_bytes.t = "int"
    THEN [err |-> "", v |-> st.total_free_B.n >= required_bytes.n, self |-> st]
    ELSE [err |-> "TypeError", v |-> FALSE, self |-> st]

\* int(v): [err, n]. None and lists raise TypeError, a str that is not an
\* optionally signed run of digits (after strip) raises ValueError.
PyIntOf(v) ==
    CASE v.t = "int" -> [err |-> "", n |-> v.n]
      [] v.t = "str" ->
            LET body == Strip(v.s)
                neg  == body # <<>> /\ Head(body) = "-"
                sgn  == body # <<>> /\ Head(body) \in {"-", "+"}
                ds   == IF sgn THEN Tail(body) ELSE body
            IN  IF ds # <<>> /\ DigitRun(ds, 1, Len(ds)) = Len(ds)
                THEN [err |-> "", n |-> IF neg THEN 0 - ToInt(ds) ELSE ToInt(ds)]
                ELSE [err |-> "ValueError", n |-> 0]
      [] OTHER -> [err |-> "TypeError", n |-> 0]

\* v.split(":", 1)[0]: [err, s]; only a str has split.
PySplitName(v) ==
    IF v.t = "str" THEN [err |-> "", s |-> SplitFirst(v.s, ":")]
    ELSE [err |-> "AttributeError", s |-> <<>>]

\* --------------------------------------------------------------- json.loads
\* The decoder covers objects, arrays, strings without escapes, integers and
\* null, nested to any depth; every reply of the model is inside this subset
\* or is malformed.  A parse result is [ok, v, next].
JsonFail == [ok |-> FALSE, v |-> PyNone, next |-> 0]

RECURSIVE Join(_)
\* The str made of the characters of chars (a dict key).
Join(chars) == IF chars = <<>> THEN "" ELSE Head(chars) \o Join(Tail(chars))

RECURSIVE SkipWs(_, _)
SkipWs(chars, i) ==
    IF i \in DOMAIN chars /\ chars[i] \in Space THEN SkipWs(chars, i + 1) ELSE i

JsonString(chars, i) ==
    LET j == FindChar(chars, "\"", i + 1)
    IN  IF CharAt(chars, i, "\"") /\ j # 0
           /\ FindChar(Slice(chars, i + 1, j - 1), "\\", 1) = 0
        THEN [ok |-> TRUE, v |-> PyStr(Slice(chars, i + 1, j - 1)), next |-> j + 1]
        ELSE JsonFail

JsonNumber(chars, i) ==
    LET neg   == CharAt(chars, i, "-")
        start == IF neg THEN i + 1 ELSE i
        run   == DigitRun(chars, start, Len(chars) + 1)
        len   == IF CharAt(chars, start, "0") THEN 1 ELSE run
        val   == ToInt(Slice(chars, start, start + len - 1))
    IN  IF run >= 1
        THEN [ok |-> TRUE, v |-> PyInt(IF neg THEN 0 - val ELSE val), next |-> start + len]
        ELSE JsonFail

RECURSIVE JsonValue(_, _)
RECURSIVE JsonMembers(_, _, _, _)
RECURSIVE JsonElements(_, _, _, _)
\* One JSON value starting at position i (whitespace already skipped).
JsonValue(chars, i) ==
    CASE CharAt(chars, i, "{") -> JsonMembers(chars, SkipWs(chars, i + 1), EmptyDict, TRUE)
      [] CharAt(chars, i, "[") -> JsonElements(chars, SkipWs(chars, i + 1), <<>>, TRUE)
      [] CharAt(chars, i, "\"") -> JsonString(chars, i)
      [] Slice(chars, i, i + 3) = <<"n", "u", "l", "l">> ->
            [ok |-> TRUE, v |-> PyNone, next |-> i + 4]
      [] OTHER -> JsonNumber(chars, i)

\* The rest of an object once the member k : v has been read.
JsonAfterMember(chars, acc, k, v) ==
    CHOOSE out \in
        {IF CharAt(chars, e, ",")
         THEN JsonMembers(chars, SkipWs(chars, e + 1), (Join(k.v.s) :> v.v) @@ acc, FALSE)
         ELSE IF CharAt(chars, e, "}")
         THEN [ok |-> TRUE, v |-> PyDict((Join(k.v.s) :> v.v) @@ acc), next |-> e + 1]
         ELSE JsonFail
         : e \in {SkipWs(chars, v.next)}} : TRUE

\* The rest of an object once the key k has been read.
JsonAfterKey(chars, acc, k) ==
    CHOOSE out \in
        {IF ~CharAt(chars, c, ":") THEN JsonFail
         ELSE CHOOSE o \in
                {IF v.ok THEN JsonAfterMember(chars, acc, k, v) ELSE JsonFail
                 : v \in {JsonValue(chars, SkipWs(chars, c + 1))}} : TRUE
         : c \in {SkipWs(chars, k.next)}} : TRUE

\* The members of an object after "{" or ","; a repeated key keeps the last
\* value.  Each intermediate result is bound once before it is used.
JsonMembers(chars, i, acc, first) ==
    IF first /\ CharAt(chars, i, "}")
    THEN [ok |-> TRUE, v |-> PyDict(acc), next |-> i + 1]
    ELSE CHOOSE out \in
            {IF k.ok THEN JsonAfterKey(chars, acc, k) ELSE JsonFail
             : k \in {JsonString(chars, i)}} : TRUE

\* The rest of an array once the element v has been read.
JsonAfterElement(chars, acc, v) ==
    CHOOSE out \in
        {IF CharAt(chars, e, ",")
         THEN JsonElements(chars, SkipWs(chars, e + 1), Append(acc, v.v), FALSE)
         ELSE IF CharAt(chars, e, "]")
         THEN [ok |-> TRUE, v |-> PyList(Append(acc, v.v)), next |-> e + 1]
         ELSE JsonFail
         : e \in {SkipWs(chars, v.next)}} : TRUE

\* The elements of an array after "[" or ",".
JsonElements(chars, i, acc, first) ==
    IF first /\ CharAt(chars, i, "]")
    THEN [ok |-> TRUE, v |-> PyList(acc), next |-> i + 1]
    ELSE CHOOSE out \in
            {IF v.ok THEN JsonAfterElement(chars, acc, v) ELSE JsonFail
             : v \in {JsonValue(chars, i)}} : TRUE

\* json.loads(text): [err, v]; JSONDecodeError unless the whole text is one value.
JsonLoads(chars) ==
    CHOOSE out \in
        UNION {{IF r.ok /\ SkipWs(text, r.next) = Len(text) + 1
                THEN [err |-> "", v |-> r.v]
                ELSE [err |-> "JSONDecodeError", v |-> PyNone]
                : r \in {JsonValue(text, SkipWs(text, 1))}}
               : text \in {chars}} : TRUE

\* ------------------------------------------------- the device and its replies
SHOW_VERSION == "show version"

DIR_JSON == "dir bootflash: | json"

DIR_TEXT == "dir bootflash:"

\* The errors the session raises: NetmikoAuthenticationException,
\* NetmikoTimeoutException and any other Exception.
TransportErrors == {"NetmikoAuthenticationException", "NetmikoTimeoutException", "Exception"}

\* `show version` records as the templated parser returns them.
XERecord ==
    PyDict([hostname |-> PyStr(<<"R", "1">>), config_register |-> PyStr(<<"0", "x", "2", "1", "0", "2">>),
            hardware |-> PyList(<<PyStr(<<"C", "9", "K">>)>>), serial |-> PyList(<<PyStr(<<"9", "A">>)>>),
            version |-> PyStr(<<"1", "7", ".", "3", ".", "4", "a">>), running_image |-> PyStr(<<"p", "a", "c", "k", "a", "g", "e", "s", ".", "c", "o", "n", "f">>)])

NXRecord ==
    PyDict([hostname |-> PyStr(<<"N", "1">>), platform |-> PyStr(<<"N", "9", "K">>), serial_number |-> PyStr(<<"F", "D">>),
            os |-> PyStr(<<"9", ".", "3", "(", "1", "0", ")">>), boot_image |-> PyStr(<<"n", "x", "o", "s", ".", "b", "i", "n">>)])

\* A mapping with neither an `os` nor a `version` key.
NoVersionKeyRecord == PyDict([hostname |-> PyStr(<<"R", "2">>)])

\* A version string that matches no grammar.
BadVersionRecord == PyDict([hostname |-> PyStr(<<"R", "3">>), version |-> PyStr(<<"1", "7", ".", "x">>)])

\* A version value of the wrong shape.
ListVersionRecord == PyDict([hostname |-> PyStr(<<"R", "4">>), version |-> PyList(<<PyStr(<<"1", "7", ".", "3", ".", "4">>)>>)])

\* An image name of the wrong shape.
ListImageRecord ==
    PyDict([hostname |-> PyStr(<<"R", "5">>), version |-> PyStr(<<"1", "6", ".", "9", ".", "1">>),
            running_image |-> PyList(<<PyStr(<<"a", ".", "b", "i", "n">>)>>)])

\* A record holding both candidates of `model` and of `serial`, the first
\* candidate of `model` being an empty string.
EmptyHardwareRecord ==
    PyDict([hostname |-> PyStr(<<"R", "6">>),
            hardware |-> PyList(<<PyStr(<<>>)>>), platform |-> PyStr(<<"N", "9", "K">>),
            serial |-> PyList(<<PyStr(<<"9", "A">>)>>), serial_number |-> PyStr(<<"F", "D">>),
            version |-> PyStr(<<"1", "7", ".", "3", ".", "4">>)])

VersionRecords ==
    {XERecord, NXRecord, NoVersionKeyRecord, BadVersionRecord,
     ListVersionRecord, ListImageRecord, EmptyHardwareRecord}

\* What send_command("show version", use_textfsm=True) can return: a list of
\* records, an empty list, or the raw text when no template applies.
VersionReplies ==
    {PyList(<<r>>) : r \in VersionRecords} \cup {PyList(<<>>), PyStr(<<"%", " ", "I", "n", "v", "a", "l", "i", "d">>)}

\* `dir bootflash:` records as the templated parser returns them.
TextStorageRecords ==
    {PyDict([file_system |-> PyStr(<<"b", "o", "o", "t", "f", "l", "a", "s", "h", ":">>), total_free |-> PyStr(<<"1", "0">>), total_size |-> PyStr(<<"2", "0">>)]),
     PyDict([file_system |-> PyStr(<<"b", "o", "o", "t", "f", "l", "a", "s", "h", ":">>), total_size |-> PyStr(<<"2", "0">>)]),
     PyDict([file_system |-> PyStr(<<"f", "l", "a", "s", "h", ":">>), total_free |-> PyStr(<<"1", "x">>), total_size |-> PyStr(<<"2", "0">>)]),
     PyDict([total_free |-> PyStr(<<"1", "0">>), total_size |-> PyStr(<<"2", "0">>)])}

TextStorageReplies ==
    {PyList(<<r>>) : r \in TextStorageRecords} \cup {PyList(<<>>), PyStr(<<"%", " ", "I", "n", "v", "a", "l", "i", "d">>)}

\* What send_command("dir bootflash: | json") can return: always text.
JsonStorageReplies ==
    {PyStr(<<"{", "\"", "u", "s", "a", "g", "e", "\"", ":", "\"", "b", "o", "o", "t", "f", "l", "a", "s", "h", ":", "\"", ",", "\"", "b", "y", "t", "e", "s", "f", "r", "e", "e", "\"", ":", "\"", "5", "\"", ",", "\"", "b", "y", "t", "e", "s", "t", "o", "t", "a", "l", "\"", ":", "\"", "9", "\"", "}", "\n">>),
     PyStr(<<"{", "\"", "u", "s", "a", "g", "e", "\"", ":", "\"", "b", "o", "o", "t", "f", "l", "a", "s", "h", ":", "\"", ",", "\"", "b", "y", "t", "e", "s", "t", "o", "t", "a", "l", "\"", ":", "\"", "9", "\"", "}">>),
     PyStr(<<"{", "\"", "u", "s", "a", "g", "e", "\"", ":", "\"", "b", "o", "o", "t", "f", "l", "a", "s", "h", ":", "\"", ",", "\"", "b", "y", "t", "e", "s", "f", "r", "e", "e", "\"", ":", "\"", "5", "\"", ",", "\"", "b", "y", "t", "e", "s", "t", "o", "t", "a", "l", "\"", ":", "\"", "n", "/", "a", "\"", "}">>),
     PyStr(<<"{", "\"", "b", "y", "t", "e", "s", "f", "r", "e", "e", "\"", ":", "\"", "5", "\"", ",", "\"", "b", "y", "t", "e", "s", "t", "o", "t", "a", "l", "\"", ":", "\"", "9", "\"", "}">>),
     PyStr(<<"{", "\"", "u", "s", "a", "g", "e", "\"", ":", "\"", "b", "o", "o", "t", "f", "l", "a", "s", "h", ":", "\"", ",">>),
     PyStr(<<"[", "\"", "b", "o", "o", "t", "f", "l", "a", "s", "h", ":", "\"", "]">>)}

\* The replies of the device to a command.
Replies(command, use_textfsm) ==
    CASE command = SHOW_VERSION -> VersionReplies
      [] command = DIR_TEXT /\ use_textfsm -> TextStorageReplies
      [] OTHER -> JsonStorageReplies

\* ------------------------------------------------------------------- state
VARIABLES
    hostname, config_register, model, serial, os, storage,  \* fact snapshot
    connection,           \* _SSHTransport.connection holds a session object
    last_connected_at, connection_attempts, last_exception,
    pc,                   \* position inside auto_discovery, "idle" outside
    raw, record,          \* locals of auto_discovery
    result,               \* outcome of the most recent call
    cmds,                 \* _run_command invocations of the current run
    written,              \* fields assigned by the current run, with values
    snap0,                \* the snapshot when the current run started
    runs,                 \* number of auto_discovery runs started
    connects,             \* number of ssh_connect calls made
    args, ret             \* a direct call of a library function and its outcome

snapshot == <<hostname, config_register, model, serial, os, storage>>

session == <<connection, last_connected_at, connection_attempts>>

history == <<cmds, written, snap0, runs>>

\* The state of a CiscoDevice and of the calls made on it.
device == <<snapshot, session, last_exception, pc, raw, record, result, history,
            connects>>

\* The state of a caller that uses the library functions directly.
caller == <<args, ret>>

vars == <<device, caller>>

\* No direct call has been made.
NoCall == [fn |-> "none"]

\* The snapshot as one record.
Snapshot ==
    [hostname |-> hostname, config_register |-> config_register,
     model |-> model, serial |-> serial, os |-> os, storage |-> storage]

FieldNames == {"hostname", "config_register", "model", "serial", "os", "storage"}

\* CiscoDevice.__init__ ; `os` and `storage` are not attributes yet.
DeviceInit ==
    /\ hostname = PyNone /\ config_register = PyNone
    /\ model = PyNone /\ serial = PyNone
    /\ os = NoAttr /\ storage = NoAttr
    /\ connection = FALSE
    /\ last_connected_at = "None"
    /\ connection_attempts = 0
    /\ last_exception = "None"
    /\ pc = "idle"
    /\ raw = PyNone /\ record = PyNone
    /\ result = [op |-> "__init__", kind |-> "returned", err |-> "", at |-> "", value |-> "None"]
    /\ cmds = <<>>
    /\ written = EmptyDict
    /\ snap0 = [hostname |-> PyNone, config_register |-> PyNone, model |-> PyNone,
                serial |-> PyNone, os |-> NoAttr, storage |-> NoAttr]
    /\ runs = 0
    /\ connects = 0

\* A device just constructed, no library function called directly.
Init ==
    /\ DeviceInit
    /\ args = NoCall
    /\ ret = NoCall

\* No call is in progress.
Idle == pc \in {"idle", "done"}

\* ------------------------------------------------------------ session calls
\* CiscoDevice.ssh_connect with _SSHTransport.connect: the attempt is counted,
\* then the session opens or the error is recorded and re-raised.
ssh_connect ==
    /\ Idle
    /\ connection_attempts < MaxConnects
    /\ connection_attempts' = connection_attempts + 1
    /\ connects' = connects + 1
    /\ \/ /\ connection' = TRUE
          /\ last_connected_at' = "now"
          /\ last_exception' = "None"
          /\ result' = [op |-> "ssh_connect", kind |-> "returned", err |-> "",
                        at |-> "", value |-> "None"]
       \/ \E e \in TransportErrors :
             /\ last_exception' = e
             /\ result' = [op |-> "ssh_connect", kind |-> "raised", err |-> e,
                           at |-> "", value |-> "None"]
             /\ UNCHANGED <<connection, last_connected_at>>
    /\ pc' = "idle"
    /\ UNCHANGED <<snapshot, raw, record, history>>
    /\ UNCHANGED caller

\* ssh_disconnect as it would be if closing the session also cleared the
\* attempt counter.
ssh_disconnectResets ==
    /\ Idle
    /\ \/ ~connection /\ connection' = connection
       \/ connection /\ connection' \in BOOLEAN
    /\ last_connected_at' = "None"
    /\ connection_attempts' = 0
    /\ result' = [op |-> "ssh_disconnect", kind |-> "returned", err |-> "",
                  at |-> "", value |-> "None"]
    /\ pc' = "idle"
    /\ UNCHANGED <<snapshot, last_exception, raw, record, history>>
    /\ UNCHANGED connects
    /\ UNCHANGED caller

\* CiscoDevice.ssh_disconnect with _SSHTransport.disconnect: an error of the
\* session's own disconnect is swallowed and leaves the session object.
ssh_disconnect ==
    /\ Idle
    /\ \/ ~connection /\ connection' = connection
       \/ connection /\ connection' \in BOOLEAN
    /\ last_connected_at' = "None"
    /\ result' = [op |-> "ssh_disconnect", kind |-> "returned", err |-> "",
                  at |-> "", value |-> "None"]
    /\ pc' = "idle"
    /\ UNCHANGED <<snapshot, connection_attempts, last_exception, raw, record, history>>
    /\ UNCHANGED connects
    /\ UNCHANGED caller

\* CiscoDevice.is_connected, given whether find_prompt() answers.
is_connected(prompt_ok) == connection /\ prompt_ok

\* CiscoDevice._run_command: the outcomes [status, raw, exc] of one call.
\* Nothing is sent without a live session; an error of send_command is
\* recorded in last_exception and None is returned.
_run_command(command, use_textfsm) ==
    LET live == {b \in BOOLEAN : is_connected(b)}
    IN  {[status |-> "not_connected", raw |-> PyNone, exc |-> last_exception]}
        \cup {[status |-> "sent", raw |-> r, exc |-> last_exception] :
                 r \in IF live # {} THEN Replies(command, use_textfsm) ELSE {}}
        \cup {[status |-> e, raw |-> PyNone, exc |-> e] :
                 e \in IF live # {} THEN TransportErrors ELSE {}}

\* ----------------------------------------------------------- auto_discovery
\* auto_discovery returns or raises at stage `at`; its locals are dropped.
Finish(kind, err, at) ==
    /\ pc' = "done"
    /\ result' = [op |-> "auto_discovery", kind |-> kind, err |-> err,
                  at |-> at, value |-> "None"]
    /\ raw' = PyNone
    /\ record' = PyNone

\* The call of auto_discovery.
auto_discovery ==
    /\ Idle
    /\ runs < MaxRuns
    /\ runs' = runs + 1
    /\ pc' = "show_version"
    /\ result' = [op |-> "auto_discovery", kind |-> "running", err |-> "",
                  at |-> "", value |-> "None"]
    /\ cmds' = <<>>
    /\ written' = EmptyDict
    /\ snap0' = Snapshot
    /\ UNCHANGED <<snapshot, session, last_exception, raw, record>>
    /\ UNCHANGED connects
    /\ UNCHANGED caller

\* raw = self._run_command("show version", use_textfsm=True)
FetchVersion ==
    /\ pc = "show_version"
    /\ \E o \in _run_command(SHOW_VERSION, TRUE) :
          /\ raw' = o.raw
          /\ last_exception' = o.exc
          /\ cmds' = Append(cmds, [command |-> SHOW_VERSION, use_textfsm |-> TRUE,
                                   status |-> o.status])
    /\ pc' = "select_record"
    /\ UNCHANGED <<snapshot, session, record, result, written, snap0, runs>>
    /\ UNCHANGED connects
    /\ UNCHANGED caller

\* record = self._safe_get(raw, 0); return unless it is a dict.
SelectRecord ==
    /\ pc = "select_record"
    /\ \E rec \in {_safe_get(raw, <<Idx(0)>>, PyNone)} :
           IF ~IsDict(rec)
           THEN Finish("returned", "", "select_record")
           ELSE /\ record' = rec
                /\ pc' = "populate"
                /\ UNCHANGED <<raw, result>>
    /\ UNCHANGED <<snapshot, session, last_exception, history>>
    /\ UNCHANGED connects
    /\ UNCHANGED caller

\* The four primary fields read from the version record.
PrimaryFields(rec) ==
    [hostname |-> _safe_get(rec, <<Key("hostname")>>, PyNone),
     config_register |-> _safe_get(rec, <<Key("config_register")>>, PyNone),
     model |-> PyOr(_safe_get(rec, <<Key("hardware"), Idx(0)>>, PyNone),
                    _safe_get(rec, <<Key("platform")>>, PyNone)),
     serial |-> PyOr(_safe_get(rec, <<Key("serial"), Idx(0)>>, PyNone),
                     _safe_get(rec, <<Key("serial_number")>>, PyNone))]

\* self.hostname, self.config_register, self.model, self.serial = ...
PopulateFields ==
    /\ pc = "populate"
    /\ \E f \in {PrimaryFields(record)} :
           /\ hostname' = f.hostname
           /\ config_register' = f.config_register
           /\ model' = f.model
           /\ serial' = f.serial
           /\ written' = f @@ written
    /\ pc' = "parse_os"
    /\ UNCHANGED <<os, storage, session, last_exception, raw, record, result,
                   cmds, snap0, runs>>
    /\ UNCHANGED connects
    /\ UNCHANGED caller

\* The raw version value handed to parse_version.
VersionValue(rec) ==
    PyOr(_safe_get(rec, <<Key("os")>>, PyNone),
         _safe_get(rec, <<Key("version")>>, PyNone))

\* self.os = parse_version(...); an error of re.match is not caught.
ParseOS ==
    /\ pc = "parse_os"
    /\ \E r \in {parse_version(VersionValue(record))} :
           IF r.err # ""
           THEN /\ Finish("raised", r.err, "parse_os")
                /\ UNCHANGED <<os, written>>
           ELSE /\ os' = r.v
                /\ written' = ("os" :> r.v) @@ written
                /\ pc' = "install_mode"
                /\ UNCHANGED <<raw, record, result>>
    /\ UNCHANGED <<hostname, config_register, model, serial, storage, session,
                   last_exception, cmds, snap0, runs>>
    /\ UNCHANGED connects
    /\ UNCHANGED caller

\* The image name handed to set_install_mode.
ImageValue(rec) ==
    PyOr(_safe_get(rec, <<Key("running_image")>>, PyStr(<<>>)),
         _safe_get(rec, <<Key("boot_image")>>, PyStr(<<>>)))

\* self.os.set_install_mode(...); self.os may be None, nothing is caught.
ClassifyInstallMode ==
    /\ pc = "install_mode"
    /\ \E r \in {set_install_mode(os, ImageValue(record))} :
           IF r.err # ""
           THEN /\ Finish("raised", r.err, "install_mode")
                /\ UNCHANGED <<os, written>>
           ELSE /\ os' = r.v
                /\ written' = ("os" :> r.v) @@ written
                /\ pc' = "storage_cmd"
                /\ UNCHANGED <<raw, record, result>>
    /\ UNCHANGED <<hostname, config_register, model, serial, storage, session,
                   last_exception, cmds, snap0, runs>>
    /\ UNCHANGED connects
    /\ UNCHANGED caller

\* The storage command chosen by a family tag that never matches.
StorageCommandSwapped(family) ==
    IF family = "NXOS"
    THEN [command |-> DIR_JSON, use_textfsm |-> FALSE]
    ELSE [command |-> DIR_TEXT, use_textfsm |-> TRUE]

\* The version command issued again in place of the storage listing.
StorageCommandRepeated(family) ==
    [command |-> SHOW_VERSION, use_textfsm |-> TRUE]

\* The storage listing command for an OS family.
StorageCommand(family) ==
    IF family = "NX-OS"
    THEN [command |-> DIR_JSON, use_textfsm |-> FALSE]
    ELSE [command |-> DIR_TEXT, use_textfsm |-> TRUE]

\* raw = self._run_command("dir bootflash: ...")
FetchStorage ==
    /\ pc = "storage_cmd"
    /\ LET c == StorageCommand(os.family)
       IN  \E o \in _run_command(c.command, c.use_textfsm) :
              /\ raw' = o.raw
              /\ last_exception' = o.exc
              /\ cmds' = Append(cmds, [command |-> c.command,
                                       use_textfsm |-> c.use_textfsm,
                                       status |-> o.status])
    /\ pc' = "parse_storage"
    /\ UNCHANGED <<snapshot, session, record, result, written, snap0, runs>>
    /\ UNCHANGED connects
    /\ UNCHANGED caller

\* The decode step with an empty mapping standing in for a failed decode.
DecodeStorageDefault(reply) ==
    IF reply.t # "str" THEN [stop |-> FALSE, v |-> PyDict(EmptyDict)]
    ELSE CHOOSE out \in
            {IF j.err # "" THEN [stop |-> FALSE, v |-> PyDict(EmptyDict)]
             ELSE [stop |-> FALSE, v |-> j.v]
             : j \in {JsonLoads(Strip(reply.s))}} : TRUE

\* json.loads(raw.strip()) under its two except clauses: [stop, v].  The
\* AttributeError of None.strip() is caught by `except Exception`.
DecodeStorage(reply) ==
    IF reply.t # "str" THEN [stop |-> TRUE, v |-> PyNone]
    ELSE CHOOSE out \in
            {IF j.err # "" THEN [stop |-> TRUE, v |-> PyNone]
             ELSE [stop |-> FALSE, v |-> j.v]
             : j \in {JsonLoads(Strip(reply.s))}} : TRUE

\* The storage record by family: [stop, v].
StorageRecord(family, reply) ==
    IF family = "NX-OS" THEN DecodeStorage(reply)
    ELSE [stop |-> FALSE, v |-> _safe_get(reply, <<Idx(0)>>, PyNone)]

\* The parse step clearing `os` again when it gives up.
ParseStorageRollback ==
    /\ pc = "parse_storage"
    /\ \E r \in {StorageRecord(os.family, raw)} :
           IF r.stop \/ ~IsDict(r.v)
           THEN /\ Finish("returned", "", "parse_storage")
                /\ os' = NoVersion
           ELSE /\ record' = r.v
                /\ pc' = "build_storage"
                /\ UNCHANGED <<raw, result, os>>
    /\ UNCHANGED <<hostname, config_register, model, serial, storage, session,
                   last_exception, history>>
    /\ UNCHANGED connects
    /\ UNCHANGED caller

\* The parse step with only json.JSONDecodeError caught: None.strip() escapes.
ParseStorageUncaught ==
    /\ pc = "parse_storage"
    /\ \E r \in {StorageRecord(os.family, raw)} :
           IF os.family = "NX-OS" /\ raw.t # "str"
           THEN Finish("raised", "AttributeError", "parse_storage")
           ELSE IF r.stop \/ ~IsDict(r.v)
           THEN Finish("returned", "", "parse_storage")
           ELSE /\ record' = r.v
                /\ pc' = "build_storage"
                /\ UNCHANGED <<raw, result>>
    /\ UNCHANGED <<snapshot, session, last_exception, history>>
    /\ UNCHANGED connects
    /\ UNCHANGED caller

\* record = json.loads(...) or raw[0]; return unless it is a dict.
ParseStorage ==
    /\ pc = "parse_storage"
    /\ \E r \in {StorageRecord(os.family, raw)} :
           IF r.stop \/ ~IsDict(r.v)
           THEN Finish("returned", "", "parse_storage")
           ELSE /\ record' = r.v
                /\ pc' = "build_storage"
                /\ UNCHANGED <<raw, result>>
    /\ UNCHANGED <<snapshot, session, last_exception, history>>
    /\ UNCHANGED connects
    /\ UNCHANGED caller

\* The keys of the storage record by family.
StorageKeys(family) ==
    IF family = "NX-OS"
    THEN [name |-> "usage", free |-> "bytesfree", size |-> "bytestotal"]
    ELSE [name |-> "file_system", free |-> "total_free", size |-> "total_size"]

\* StorageInfo built with 0 standing in for a byte count that is missing.
BuildStorageInfoDefaulting(family, rec) ==
    LET k    == StorageKeys(family)
        name == PySplitName(_safe_get(rec, <<Key(k.name)>>, PyStr(<<>>)))
        free == PyIntOf(_safe_get(rec, <<Key(k.free)>>, PyInt(0)))
        size == PyIntOf(_safe_get(rec, <<Key(k.size)>>, PyInt(0)))
    IN  IF name.err # "" THEN [err |-> name.err, v |-> NoAttr]
        ELSE IF free.err # "" THEN [err |-> free.err, v |-> NoAttr]
        ELSE IF size.err # "" THEN [err |-> size.err, v |-> NoAttr]
        ELSE [err |-> "", v |-> StorageInfo(PyStr(name.s), PyInt(free.n), PyInt(size.n))]

\* StorageInfo(name.split(":",1)[0], int(free), int(size)): [err, v]; the
\* arguments are evaluated left to right and the first error is raised.
BuildStorageInfo(family, rec) ==
    LET k    == StorageKeys(family)
        name == PySplitName(_safe_get(rec, <<Key(k.name)>>, PyNone))
        free == PyIntOf(_safe_get(rec, <<Key(k.free)>>, PyNone))
        size == PyIntOf(_safe_get(rec, <<Key(k.size)>>, PyNone))
    IN  IF name.err # "" THEN [err |-> name.err, v |-> NoAttr]
        ELSE IF free.err # "" THEN [err |-> free.err, v |-> NoAttr]
        ELSE IF size.err # "" THEN [err |-> size.err, v |-> NoAttr]
        ELSE [err |-> "", v |-> StorageInfo(PyStr(name.s), PyInt(free.n), PyInt(size.n))]

\* self.storage = StorageInfo(...); nothing is caught.
BuildStorage ==
    /\ pc = "build_storage"
    /\ \E r \in {BuildStorageInfo(os.family, record)} :
           IF r.err # ""
           THEN /\ Finish("raised", r.err, "build_storage")
                /\ UNCHANGED <<storage, written>>
           ELSE /\ storage' = r.v
                /\ written' = ("storage" :> r.v) @@ written
                /\ Finish("returned", "", "build_storage")
    /\ UNCHANGED <<hostname, config_register, model, serial, os, session,
                   last_exception, cmds, snap0, runs>>
    /\ UNCHANGED connects
    /\ UNCHANGED caller

Next ==
    \/ ssh_connect
    \/ ssh_disconnect
    \/ auto_discovery
    \/ FetchVersion
    \/ SelectRecord
    \/ PopulateFields
    \/ ParseOS
    \/ ClassifyInstallMode
    \/ FetchStorage
    \/ ParseStorage
    \/ BuildStorage

Spec == Init /\ [][Next]_vars

\* ------------------------------------------------------------------ claims
\* A snapshot value that is absent: None or an attribute never assigned.
Absent(v) == v \in {PyNone, NoVersion, NoAttr}

\* The run that just ended did not reach the end of step 8.
EndedEarly == ~(result.kind = "returned" /\ result.at = "build_storage")

\* C1: when the selected version record is a mapping with neither an `os` nor
\* a `version` key, the run ends there without raising, `os` is absent and no
\* install-mode classification or storage command follows.
C1_NoVersionKeysSkips ==
    [][(/\ pc = "parse_os"
        /\ "os" \notin DOMAIN record.d
        /\ "version" \notin DOMAIN record.d)
       => (/\ pc' = "done"
           /\ result'.kind = "returned"
           /\ Absent(os')
           /\ Len(cmds') = 1)]_vars

\* C2: a run of auto_discovery raises only at step 8, when StorageInfo is
\* built; every earlier stage proceeds or returns normally.
C2_OnlyStep8Raises ==
    (pc = "done" /\ result.kind = "raised") => result.at = "build_storage"

\* C3: when a run ends early (a logged stop or an error), every field the run
\* assigned still holds the value it was assigned.
C3_NoRollback ==
    (pc = "done" /\ EndedEarly)
        => \A f \in DOMAIN written : Snapshot[f] = written[f]

\* C3 witness: a run assigned hostname and os and then raised at step 8.
C3_Witness ==
    /\ pc = "done" /\ result.kind = "raised" /\ result.at = "build_storage"
    /\ "os" \in DOMAIN written
    /\ hostname # PyNone

\* C4: after a second run, whatever stage it ended at, every snapshot field
\* was assigned by that run or is absent.
C4_SecondRunOverwrites ==
    (pc = "done" /\ runs >= 2)
        => \A f \in FieldNames : f \in DOMAIN written \/ Absent(Snapshot[f])

\* C5: a run issues `show version` first, a storage listing only second and
\* only while the selected version record is a mapping, and nothing third.
C5_TwoCommandsInOrder ==
    [][cmds' # cmds =>
         \/ cmds' = <<>>
         \/ /\ cmds = <<>>
            /\ Len(cmds') = 1
            /\ cmds'[1].command = SHOW_VERSION
         \/ /\ Len(cmds) = 1
            /\ Len(cmds') = 2
            /\ cmds'[1] = cmds[1]
            /\ cmds'[2].command \in {DIR_JSON, DIR_TEXT}
            /\ record.t = "dict"]_vars

\* C5 witness: a run that issued both commands.
C5_Witness ==
    /\ Len(cmds) = 2
    /\ cmds[1].command = SHOW_VERSION
    /\ cmds[2].command = DIR_JSON

\* C6: a command that fails with a transport error is the last one of its
\* run; the run returns without raising at the stage after that command, and
\* a failed storage command leaves `storage` as it was.
C6_TransportErrorsCaught ==
    /\ \A i \in DOMAIN cmds :
          cmds[i].status \in TransportErrors
              => /\ i = Len(cmds)
                 /\ pc \in {"select_record", "parse_storage", "done", "idle"}
    /\ (pc = "done" /\ cmds # <<>> /\ cmds[Len(cmds)].status \in TransportErrors)
          => /\ result.kind = "returned"
             /\ result.at = (IF Len(cmds) = 1 THEN "select_record" ELSE "parse_storage")
             /\ Len(cmds) = 2 => (storage = snap0.storage /\ "storage" \notin DOMAIN written)

\* C6 witness: the storage command of an NX-OS run timed out and the run ended.
C6_Witness ==
    /\ pc = "done" /\ Len(cmds) = 2
    /\ cmds[2].status = "NetmikoTimeoutException"
    /\ os.family = "NX-OS"

\* The result of `show version` has no mapping as element 0.
NoVersionRecord(reply) ==
    ~(reply.t = "list" /\ Len(reply.items) >= 1 /\ reply.items[1].t = "dict")

\* C7: when the result of `show version` is missing or has no mapping as
\* element 0, the run returns at once without raising, with the snapshot as it
\* was when the run started and only the one command issued.
C7_VersionStageStops ==
    [][(pc = "select_record" /\ NoVersionRecord(raw))
       => (/\ pc' = "done"
           /\ result'.kind = "returned"
           /\ Snapshot' = snap0
           /\ Len(cmds') = 1)]_vars

\* C7 witness: a reply arrived whose element 0 is no mapping and the run
\* stopped at the selection.
C7_Witness ==
    /\ pc = "done" /\ result.at = "select_record"
    /\ Len(cmds) = 1 /\ cmds[1].status = "sent"

\* The field names of step 8 as the specification lists them.
C8_Keys(family) ==
    IF family = "NX-OS"
    THEN [name |-> "usage", bytes |-> {"bytesfree", "bytestotal"}]
    ELSE [name |-> "file_system", bytes |-> {"total_free", "total_size"}]

\* The name field is missing, or a byte count is missing or not an integer.
BadStorageFields(family, rec) ==
    \/ C8_Keys(family).name \notin DOMAIN rec.d
    \/ \E k \in C8_Keys(family).bytes :
          k \notin DOMAIN rec.d \/ PyIntOf(rec.d[k]).err # ""

DecodesToObject(reply) ==
    /\ reply.t = "str"
    /\ JsonLoads(reply.s).err = ""
    /\ JsonLoads(reply.s).v.t = "dict"

\* C9: on NX-OS a storage reply that does not decode as one JSON object
\* (malformed, missing, or not a mapping) makes the run return without raising
\* and without assigning `storage`.
C9_UndecodableStops ==
    [][(pc = "parse_storage" /\ os.family = "NX-OS" /\ ~DecodesToObject(raw))
       => (/\ pc' = "done"
           /\ result'.kind = "returned"
           /\ result'.at = "parse_storage"
           /\ storage' = storage
           /\ "storage" \notin DOMAIN written')]_vars

\* C9 witness: an NX-OS reply arrived and the run stopped at the decode.
C9_Witness ==
    /\ pc = "done" /\ result.at = "parse_storage"
    /\ os.family = "NX-OS"
    /\ cmds[2].status = "sent"

\* The record the parse strategy of a storage command yields, None on failure.
C10_Parsed(command, reply) ==
    IF command = DIR_JSON
    THEN IF reply.t = "str" /\ JsonLoads(reply.s).err = ""
         THEN JsonLoads(reply.s).v ELSE PyNone
    ELSE _safe_get(reply, <<Idx(0)>>, PyNone)

\* C10: the storage command is the JSON listing without templated parsing
\* exactly when os.family is NX-OS and the templated listing otherwise, and
\* the reply is parsed by the strategy of the command that was issued.
C10_CommandMatchesFamily ==
    /\ [](Len(cmds) = 2 =>
            /\ os.family = "NX-OS" <=> cmds[2].command = DIR_JSON
            /\ cmds[2].command = DIR_JSON => ~cmds[2].use_textfsm
            /\ cmds[2].command # DIR_JSON
                  => (cmds[2].command = DIR_TEXT /\ cmds[2].use_textfsm))
    /\ [][pc = "parse_storage" =>
            /\ pc' = "build_storage" => record' = C10_Parsed(cmds[2].command, raw)
            /\ pc' = "done" => ~IsDict(C10_Parsed(cmds[2].command, raw))]_vars

\* C10 witness: an NX-OS run issued the JSON listing and decoded a mapping.
C10_Witness ==
    /\ pc = "build_storage"
    /\ os.family = "NX-OS"
    /\ cmds[2].command = DIR_JSON
    /\ record.t = "dict"

\* The first candidate rec[k][0] of a primary field is present in the record.
C11_FirstPresent(rec, k) ==
    /\ k \in DOMAIN rec.d
    /\ rec.d[k].t = "list"
    /\ Len(rec.d[k].items) >= 1
    /\ rec.d[k].items[1] # PyNone

\* C11: at step 3, whenever record["hardware"][0] is present `model` takes its
\* value, and whenever record["serial"][0] is present `serial` takes its value,
\* whatever that value is (an empty string included); the second candidate is
\* then not used.
C11_FirstPresentWins ==
    [][pc = "populate" =>
         /\ C11_FirstPresent(record, "hardware")
                => model' = record.d["hardware"].items[1]
         /\ C11_FirstPresent(record, "serial")
                => serial' = record.d["serial"].items[1]]_vars

\* ------------------------------------------------- direct calls: versions
\* The longest run of digits tried as a major number.
MaxDigits == 3

\* The strings of at most n characters over a set of characters.
Strings(alphabet, n) == UNION {[1..k -> alphabet] : k \in 0..n}

\* What follows the third number of a dotted version string.
DottedTails ==
    {<<>>, <<"a">>, <<"z">>, <<"A">>, <<"\n">>, <<"a", "\n">>, <<"a", "b">>, <<" ">>}

\* What follows the closing parenthesis of a parenthesised version string.
ParenTails ==
    {<<>>, <<"F">>, <<"I", "7">>, <<"I", "7", "(", "9", ")">>,
     <<"F", "7">>, <<"F", "7", "(", "9", ")">>, <<"I", "7", "(">>,
     <<"I", "7", "7">>, <<"I", "7", "(", ")">>, <<"f">>, <<"\n">>,
     <<"I", "7", "\n">>, <<"F", "F">>, <<"I", "7", "(", "9", ")", "x">>}

\* The raw strings handed to the version parsers.
VersionInputs ==
    {a \o <<".">> \o b \o <<".">> \o c \o t :
        a \in Strings({"0", "1", "7"}, MaxDigits),
        b \in {<<"3">>, <<"0", "3">>, <<>>},
        c \in {<<"4">>, <<"1", "0">>},
        t \in DottedTails}
    \cup {a \o <<".">> \o b \o <<"(">> \o c \o <<")">> \o t :
        a \in Strings({"0", "1", "7"}, MaxDigits),
        b \in {<<"0">>, <<"3">>},
        c \in {<<"3">>, <<"1", "0">>, <<>>},
        t \in ParenTails}
    \cup {<<>>, <<"n", "o", "t", "-", "a", "-", "v", "e", "r", "s", "i", "o", "n">>}

\* A caller about to parse one raw string.
VersionInit ==
    /\ DeviceInit
    /\ args \in VersionInputs
    /\ ret = NoCall

\* parse_version(raw)
CallParseVersion ==
    /\ ret = NoCall
    /\ \E r \in {parse_version(PyStr(args))} :
          ret' = [fn |-> "parse_version", err |-> r.err, v |-> r.v]
    /\ UNCHANGED <<device, args>>

\* NXOSVersion(raw)
CallNXOSVersion ==
    /\ ret = NoCall
    /\ ret' = [fn |-> "NXOSVersion", err |-> "", v |-> NXOSVersion(args)]
    /\ UNCHANGED <<device, args>>

VersionNext ==
    \/ CallParseVersion
    \/ CallNXOSVersion

VersionSpec == VersionInit /\ [][VersionNext]_vars

\* A number of the version grammars: a non-empty run of decimal digits.
IsNumber(chars) == chars # <<>> /\ \A i \in DOMAIN chars : chars[i] \in Digits

\* The parts of MAJOR.MINOR.PATCH[LETTER], split at the first two dots.
C12_Parts(chars) ==
    LET d1   == FindChar(chars, ".", 1)
        d2   == IF d1 = 0 THEN 0 ELSE FindChar(chars, ".", d1 + 1)
        tail == Slice(chars, d2 + 1, Len(chars))
        lett == tail # <<>> /\ tail[Len(tail)] \in Lower
    IN  [dots   |-> d1 > 0 /\ d2 > 0,
         major  |-> Slice(chars, 1, d1 - 1),
         minor  |-> Slice(chars, d1 + 1, d2 - 1),
         patch  |-> IF lett THEN Slice(tail, 1, Len(tail) - 1) ELSE tail,
         letter |-> IF lett THEN <<tail[Len(tail)]>> ELSE <<>>]

\* The string matches the IOS-XE grammar: three numbers of one or two digits
\* separated by dots, then at most one lowercase letter.
IOSXEGrammar(chars) ==
    LET p == C12_Parts(chars)
    IN  /\ p.dots
        /\ \A n \in {p.major, p.minor, p.patch} : IsNumber(n) /\ Len(n) <= 2

\* parse_version returned an IOSXEVersion holding the captured groups.
C12_Captured ==
    LET p == C12_Parts(args)
    IN  /\ ret.err = ""
        /\ ret.v.cls = "IOSXEVersion"
        /\ ret.v.major > 0
        /\ ret.v.major = ToInt(p.major)
        /\ ret.v.minor = ToInt(p.minor)
        /\ ret.v.patch = ToInt(p.patch)
        /\ ret.v.rebuild_letter = p.letter

\* C12 as stated: for every raw string that matches the IOS-XE grammar,
\* parse_version returns an IOSXEVersion with major > 0 whose fields equal the
\* captured groups.
C12_GrammarParses ==
    (ret.fn = "parse_version" /\ IOSXEGrammar(args)) => C12_Captured

\* C12 amended: for every raw string that matches the IOS-XE grammar and whose
\* MAJOR is not zero, parse_version returns an IOSXEVersion with major > 0
\* whose major, minor, patch and rebuild_letter equal the captured groups.
C12_NonZeroMajorParses ==
    (/\ ret.fn = "parse_version"
     /\ IOSXEGrammar(args)
     /\ ToInt(C12_Parts(args).major) # 0) => C12_Captured

\* C12 witness: "07.3.4a" was parsed, with its leading zero and its letter.
C12_Witness ==
    /\ ret.fn = "parse_version"
    /\ args = <<"0", "7", ".", "3", ".", "4", "a">>
    /\ ret.v.cls = "IOSXEVersion"
    /\ ret.v.major = 7
    /\ ret.v.rebuild_letter = <<"a">>

\* The parts of MAJOR.MINOR(MAINT)REST, split at the first dot and parentheses.
C14_Parts(chars) ==
    LET d == FindChar(chars, ".", 1)
        o == FindChar(chars, "(", 1)
        c == FindChar(chars, ")", 1)
    IN  [head  |-> /\ d > 0 /\ o > d /\ c > o
                   /\ IsNumber(Slice(chars, 1, d - 1))
                   /\ IsNumber(Slice(chars, d + 1, o - 1))
                   /\ IsNumber(Slice(chars, o + 1, c - 1)),
         major |-> Slice(chars, 1, d - 1),
         minor |-> Slice(chars, d + 1, o - 1),
         maint |-> Slice(chars, o + 1, c - 1),
         rest  |-> Slice(chars, c + 1, Len(chars))]

\* The train form: the head, one uppercase letter and one digit, then at most
\* one parenthesised rebuild number.
C14_TrainForm(chars) ==
    LET r == C14_Parts(chars).rest
    IN  /\ C14_Parts(chars).head
        /\ Len(r) >= 2 /\ r[1] \in Upper /\ r[2] \in Digits
        /\ \/ Len(r) = 2
           \/ /\ Len(r) >= 5 /\ r[3] = "(" /\ r[Len(r)] = ")"
              /\ IsNumber(Slice(r, 4, Len(r) - 1))

\* The simple form: the head, then at most one uppercase letter.
C14_SimpleForm(chars) ==
    LET r == C14_Parts(chars).rest
    IN  /\ C14_Parts(chars).head
        /\ r = <<>> \/ (Len(r) = 1 /\ r[1] \in Upper)

\* The string matches one of the two NX-OS forms.
NXOSGrammar(chars) == C14_TrainForm(chars) \/ C14_SimpleForm(chars)

\* C13: parse_version returns the IOSXEVersion when its major is not 0, else
\* the NXOSVersion when its major is not 0; for a raw string that matches
\* neither grammar it returns None, and it never returns a version object
\* whose major is 0.
C13_Dispatch ==
    ret.fn = "parse_version" =>
        /\ ret.err = ""
        /\ ret.v = (IF IOSXEVersion(args).major # 0 THEN IOSXEVersion(args)
                    ELSE IF NXOSVersion(args).major # 0 THEN NXOSVersion(args)
                    ELSE NoVersion)
        /\ ret.v # NoVersion => ret.v.major # 0
        /\ (~IOSXEGrammar(args) /\ ~NXOSGrammar(args)) => ret.v = NoVersion

\* C14: NXOSVersion tries the train form first (any uppercase letter and one
\* digit as the train), filling train and rebuild and leaving suffix empty;
\* then the simple form, filling suffix and leaving train empty and rebuild 0;
\* when neither matches every numeric field is 0 and train and suffix are empty.
C14_NXOSForms ==
    ret.fn = "NXOSVersion" =>
        LET p == C14_Parts(args)
            r == p.rest
            v == ret.v
        IN  IF C14_TrainForm(args)
            THEN /\ v.major = ToInt(p.major) /\ v.minor = ToInt(p.minor)
                 /\ v.maintenance = ToInt(p.maint)
                 /\ v.train = Slice(r, 1, 2)
                 /\ v.rebuild = (IF Len(r) = 2 THEN 0 ELSE ToInt(Slice(r, 4, Len(r) - 1)))
                 /\ v.suffix = <<>>
            ELSE IF C14_SimpleForm(args)
            THEN /\ v.major = ToInt(p.major) /\ v.minor = ToInt(p.minor)
                 /\ v.maintenance = ToInt(p.maint)
                 /\ v.suffix = r
                 /\ v.train = <<>> /\ v.rebuild = 0
            ELSE /\ v.major = 0 /\ v.minor = 0 /\ v.maintenance = 0 /\ v.rebuild = 0
                 /\ v.train = <<>> /\ v.suffix = <<>>

\* ---------------------------------------------- direct calls: comparison
\* The version objects a caller compares: both classes, parsed and unparsed.
CompareVersions ==
    {IOSXEVersion(a \o <<".">> \o b \o <<".", "4">> \o t) :
        a \in {<<"1", "6">>, <<"1", "7">>},
        b \in {<<"3">>, <<"1", "2">>},
        t \in {<<>>, <<"a">>, <<"b">>}}
    \cup {NXOSVersion(<<"9", ".", "3", "(">> \o c \o <<")">> \o t) :
        c \in {<<"9">>, <<"1", "0">>},
        t \in {<<>>, <<"A">>, <<"F">>, <<"I", "4">>, <<"I", "7">>,
               <<"I", "7", "(", "9", ")">>}}
    \cup {IOSXEVersion(<<"1", "7", ".", "0", "3", ".", "0", "4">>),
          IOSXEVersion(<<"x">>), NXOSVersion(<<"x">>)}

\* A caller holding three version objects.
CompareInit ==
    /\ DeviceInit
    /\ args \in [1..3 -> CompareVersions]
    /\ ret = NoCall

\* args[i].is_newer_than(args[j]) for every pair of the three objects.
CallIsNewerThan ==
    /\ ret = NoCall
    /\ ret' = [fn  |-> "is_newer_than",
               out |-> [i \in 1..3 |-> [j \in 1..3 |->
                           is_newer_than(args[i], args[j])]]]
    /\ UNCHANGED <<device, args>>

CompareNext == CallIsNewerThan

CompareSpec == CompareInit /\ [][CompareNext]_vars

\* The ordered fields of a version by variant, as the specification lists them.
C15_Fields(v) ==
    IF v.cls = "IOSXEVersion"
    THEN <<PyInt(v.major), PyInt(v.minor), PyInt(v.patch), PyStr(v.rebuild_letter)>>
    ELSE <<PyInt(v.major), PyInt(v.minor), PyInt(v.maintenance), PyStr(v.train),
           PyInt(v.rebuild), PyStr(v.suffix)>>

\* x is lexicographically after y: at the first field where they differ the
\* field of x is the greater.
C15_LexAfter(x, y) ==
    \E f \in DOMAIN x :
        /\ \A g \in 1..(f - 1) : x[g] = y[g]
        /\ x[f] # y[f]
        /\ PyGreater(x[f], y[f])

\* C15: within one variant is_newer_than is the lexicographic comparison of
\* the variant's ordered fields; it is irreflexive, asymmetric and transitive,
\* and two versions with equal field tuples are newer than neither.
C15_StrictOrder ==
    ret.fn = "is_newer_than" =>
        \A i, j, k \in 1..3 :
            (args[i].cls = args[j].cls /\ args[j].cls = args[k].cls) =>
                /\ ret.out[i][j].err = ""
                /\ ret.out[i][j].v = C15_LexAfter(C15_Fields(args[i]), C15_Fields(args[j]))
                /\ ~ret.out[i][i].v
                /\ ret.out[i][j].v => ~ret.out[j][i].v
                /\ (ret.out[i][j].v /\ ret.out[j][k].v) => ret.out[i][k].v
                /\ C15_Fields(args[i]) = C15_Fields(args[j])
                      => (~ret.out[i][j].v /\ ~ret.out[j][i].v)

\* C15 witness: three NX-OS versions were compared and form a chain, the
\* first newer than the second by maintenance 10 against 9.
C15_Witness ==
    /\ ret.fn = "is_newer_than"
    /\ \A i \in 1..3 : args[i].cls = "NXOSVersion"
    /\ ret.out[1][2].v /\ ret.out[2][3].v /\ ret.out[1][3].v
    /\ args[1].maintenance = 10 /\ args[2].maintenance = 9

\* C16: is_newer_than between an IOSXEVersion and an NXOSVersion, in either
\* direction, ends in an error and returns no boolean.
C16_CrossVariantFails ==
    ret.fn = "is_newer_than" =>
        \A i, j \in 1..3 :
            args[i].cls # args[j].cls => ret.out[i][j].err # ""

\* C16 witness: an IOSXEVersion was compared with an NXOSVersion, both parsed,
\* and both directions raised AttributeError.
C16_Witness ==
    /\ ret.fn = "is_newer_than"
    /\ args[1].cls = "IOSXEVersion" /\ args[1].major = 17
    /\ args[2].cls = "NXOSVersion" /\ args[2].major = 9
    /\ ret.out[1][2].err = "AttributeError"
    /\ ret.out[2][1].err = "AttributeError"

\* -------------------------------------------- direct calls: install mode
\* Number of set_install_mode calls explored on one version object.
MaxCalls == 2

\* The image names handed to set_install_mode: a stem, an ending, and
\* whitespace around them; and two values that are no str.
ImageNames ==
    {PyStr(l \o stem \o ext \o t) :
        l \in {<<>>, <<" ">>},
        stem \in {<<>>, <<"a">>},
        ext \in {<<>>, <<".", "c", "o", "n", "f">>, <<".", "b", "i", "n">>,
                 <<".", "C", "O", "N", "F">>, <<".", "B", "i", "n">>,
                 <<".", "c", "o", "n">>, <<"c", "o", "n", "f">>, <<"b", "i", "n">>,
                 <<".", "b", "i", "n", ".", "c", "o", "n", "f">>,
                 <<".", "c", "o", "n", "f", ".", "b", "i", "n">>,
                 <<".", "c", "o", "n", "f", ".", "t", "x", "t">>,
                 <<".", "b", "i", "n", "x">>},
        t \in {<<>>, <<" ">>, <<"\n">>, <<"\t", " ">>}}
    \cup {PyNone, PyList(<<PyStr(<<"a", ".", "b", "i", "n">>)>>)}

\* The version objects whose install mode is set.
InstallModeObjects ==
    {IOSXEVersion(<<"1", "7", ".", "3", ".", "4", "a">>), IOSXEVersion(<<"x">>),
     NXOSVersion(<<"9", ".", "3", "(", "1", "0", ")">>),
     NXOSVersion(<<"7", ".", "0", "(", "3", ")", "I", "7", "(", "9", ")">>)}

\* A caller holding one version object just constructed.
InstallModeInit ==
    /\ DeviceInit
    /\ \E obj \in InstallModeObjects :
          args = [self |-> obj, image |-> PyNone, calls |-> 0]
    /\ ret = NoCall

\* self.set_install_mode(image); `prev` keeps the mode before the call.
CallSetInstallMode ==
    /\ args.calls < MaxCalls
    /\ \E image \in ImageNames :
       \E r \in {set_install_mode(args.self, image)} :
          /\ args' = [self |-> r.v, image |-> image, calls |-> args.calls + 1]
          /\ ret' = [fn |-> "set_install_mode", err |-> r.err,
                     prev |-> args.self.install_mode]
    /\ UNCHANGED device

InstallModeNext == CallSetInstallMode

InstallModeSpec == InstallModeInit /\ [][InstallModeNext]_vars

\* chars ends with the lowercase pattern pat, letters of either case.
C17_EndsWithAnyCase(chars, pat) ==
    /\ Len(chars) >= Len(pat)
    /\ \A i \in DOMAIN pat :
          LET c == chars[Len(chars) - Len(pat) + i]
          IN  c = pat[i] \/ (pat[i] \in Lower /\ c = CodePoints[Ord(pat[i]) - 26])

\* The install mode the specification gives for an image name by class.
C17_Mode(cls, chars) ==
    IF cls = "NXOSVersion" THEN NA
    ELSE IF C17_EndsWithAnyCase(chars, <<".", "c", "o", "n", "f">>) THEN INSTALL
    ELSE IF C17_EndsWithAnyCase(chars, <<".", "b", "i", "n">>) THEN BUNDLE
    ELSE UNKNOWN

\* chars without its leading and trailing whitespace.
C17_Trimmed(chars) ==
    LET inked == {i \in DOMAIN chars : chars[i] \notin Space}
    IN  IF inked = {} THEN <<>>
        ELSE SubSeq(chars, CHOOSE i \in inked : \A j \in inked : i <= j,
                           CHOOSE i \in inked : \A j \in inked : i >= j)

\* C17 as stated: after set_install_mode(image) the mode is INSTALL when the
\* image name ends in .conf, BUNDLE when it ends in .bin (any case), UNKNOWN
\* otherwise, and NA on an NXOSVersion, whatever the mode was before.
C17_SuffixOfName ==
    (ret.fn = "set_install_mode" /\ (args.image.t = "str" \/ args.self.cls = "NXOSVersion"))
        => /\ ret.err = ""
           /\ args.self.install_mode = C17_Mode(args.self.cls, args.image.s)

\* C17 amended: the mode is decided by the image name with its leading and
\* trailing whitespace removed: INSTALL when that ends in .conf, BUNDLE when
\* it ends in .bin (any case), UNKNOWN otherwise (the empty name included);
\* NA on an NXOSVersion for every input; whatever the mode was before.
C17_SuffixAfterStrip ==
    (ret.fn = "set_install_mode" /\ (args.image.t = "str" \/ args.self.cls = "NXOSVersion"))
        => /\ ret.err = ""
           /\ args.self.install_mode = C17_Mode(args.self.cls, C17_Trimmed(args.image.s))

\* C17 witness: a second call with an upper-case .CONF name turned an
\* IOSXEVersion from BUNDLE to INSTALL.
C17_Witness ==
    /\ ret.fn = "set_install_mode"
    /\ args.calls = 2
    /\ args.self.cls = "IOSXEVersion"
    /\ ret.prev = BUNDLE
    /\ args.image = PyStr(<<"a", ".", "C", "O", "N", "F">>)
    /\ args.self.install_mode = INSTALL

\* ------------------------------------------------ direct calls: _safe_get
\* The longest path walked.
MaxPath == 3

\* {"a": {"b": [10, 20], "c": "xy"}, "b": None}
NestedSource ==
    PyDict([a |-> PyDict([b |-> PyList(<<PyInt(10), PyInt(20)>>),
                          c |-> PyStr(<<"x", "y">>)]),
            b |-> PyNone])

\* The structures walked: mappings, lists, a str, and values that cannot be
\* indexed.
SafeGetSources ==
    {NestedSource,
     PyList(<<NestedSource, PyList(<<PyInt(5)>>), PyStr(<<"s">>)>>),
     PyStr(<<"a", "b">>), PyList(<<>>), PyDict(EmptyDict), PyNone, PyInt(7)}

\* The steps of a path: keys present and missing, indices in and out of range.
SafeGetSteps == {Key("a"), Key("b"), Key("z"), Idx(0), Idx(0 - 1), Idx(5)}

\* A caller about to walk one structure by one path.
SafeGetInit ==
    /\ DeviceInit
    /\ \E source \in SafeGetSources, tuple_path \in Strings(SafeGetSteps, MaxPath),
          default \in {PyNone, PyInt(0), PyObject},
          log_path \in {PyNone, PyStr(<<"p">>)} :
          args = [source |-> source, tuple_path |-> tuple_path,
                  default |-> default, log_path |-> log_path]
    /\ ret = NoCall

\* self._safe_get(source, *tuple_path, default=default, log_path=log_path)
CallSafeGet ==
    /\ ret = NoCall
    /\ \E r \in {_safe_get_loop(args.source, args.tuple_path, args.default, args.log_path)} :
          ret' = [fn |-> "_safe_get", err |-> "", v |-> r.v, logged |-> r.logged]
    /\ UNCHANGED <<device, args>>

SafeGetNext == CallSafeGet

SafeGetSpec == SafeGetInit /\ [][SafeGetNext]_vars

RECURSIVE C18_Direct(_, _)
\* Direct successive indexing source[p1][p2]...: [ok, v], ok false when a step
\* is a missing key, an index out of range or an index into a value that
\* cannot be indexed that way.
C18_Direct(cur, path) ==
    IF path = <<>> THEN [ok |-> TRUE, v |-> cur]
    ELSE LET st  == Head(path)
             seq == IF cur.t = "list" THEN cur.items
                    ELSE IF cur.t = "str" THEN [i \in DOMAIN cur.s |-> PyStr(<<cur.s[i]>>)]
                    ELSE <<>>
             n   == Len(seq)
         IN  IF cur.t = "dict" /\ st.t = "key" /\ st.k \in DOMAIN cur.d
             THEN C18_Direct(cur.d[st.k], Tail(path))
             ELSE IF st.t = "idx" /\ st.i >= 0 /\ st.i < n
             THEN C18_Direct(seq[st.i + 1], Tail(path))
             ELSE IF st.t = "idx" /\ st.i < 0 /\ n + st.i >= 0
             THEN C18_Direct(seq[n + st.i + 1], Tail(path))
             ELSE [ok |-> FALSE, v |-> PyNone]

\* C18: _safe_get returns the value direct successive indexing reaches when
\* every step exists, and `default` without raising when a step fails, for
\* every default (None, 0, a sentinel object) and with or without a log_path.
C18_RoundTrip ==
    ret.fn = "_safe_get" =>
        /\ ret.err = ""
        /\ ret.v = (IF C18_Direct(args.source, args.tuple_path).ok
                    THEN C18_Direct(args.source, args.tuple_path).v
                    ELSE args.default)
        /\ ret.logged => ~C18_Direct(args.source, args.tuple_path).ok

\* C18 witness: the walk a, b, 5 failed at its third step with a log_path and
\* returned the sentinel default.
C18_Witness ==
    /\ ret.fn = "_safe_get"
    /\ args.source = NestedSource
    /\ args.tuple_path = <<Key("a"), Key("b"), Idx(5)>>
    /\ args.default = PyObject
    /\ args.log_path # PyNone
    /\ ret.v = PyObject
    /\ ret.logged

\* C19: a call of ssh_connect that establishes the session returns True.
C19_ConnectReturnsTrue ==
    (result.op = "ssh_connect" /\ result.kind = "returned") => result.value = "True"

\* ------------------------------------------------ direct calls: has_space
\* The largest byte count tried.
MaxBytes == 4

\* A byte count of a StorageInfo: populated, or None as the constructor
\* leaves it by default.
ByteCounts == {PyNone} \cup {PyInt(k) : k \in 0..MaxBytes}

\* A caller holding one StorageInfo and a number of bytes to ask for.
StorageInit ==
    /\ DeviceInit
    /\ \E name \in {PyStr(<<>>), PyStr(<<"b", "o", "o", "t", "f", "l", "a", "s", "h">>)},
          total_free_B \in ByteCounts, total_size_B \in ByteCounts,
          required_bytes \in (0 - 1)..(MaxBytes + 1) :
          args = [self |-> StorageInfo(name, total_free_B, total_size_B),
                  required_bytes |-> PyInt(required_bytes)]
    /\ ret = NoCall

\* self.has_space(required_bytes); `before` keeps the object as it was.
CallHasSpace ==
    /\ ret = NoCall
    /\ \E r \in {has_space(args.self, args.required_bytes)} :
          /\ ret' = [fn |-> "has_space", err |-> r.err, v |-> r.v, before |-> args.self]
          /\ args' = [args EXCEPT !.self = r.self]
    /\ UNCHANGED device

StorageNext == CallHasSpace

StorageSpec == StorageInit /\ [][StorageNext]_vars

\* C20: for a StorageInfo whose total_free_B is populated, has_space(n)
\* returns true exactly when total_free_B >= n, the boundary n = total_free_B
\* included, whatever total_size_B and name are, and leaves the object as it
\* was.
C20_HasSpace ==
    (ret.fn = "has_space" /\ ret.before.total_free_B # PyNone)
        => /\ ret.err = ""
           /\ ret.v <=> (ret.before.total_free_B.n >= args.required_bytes.n)
           /\ args.self = ret.before

\* C20 witness: the boundary, asked of a StorageInfo whose size is not
\* populated: 3 bytes free, 3 bytes required, the answer true.
C20_Witness ==
    /\ ret.fn = "has_space"
    /\ ret.before.total_free_B = PyInt(3)
    /\ ret.before.total_size_B = PyNone
    /\ args.required_bytes = PyInt(3)
    /\ ret.v

\* ------------------------------------------------- session state and commands
\* The only outcome of _run_command on a device without a usable session:
\* nothing sent, None returned, last_exception as it was.
NothingSent == {[status |-> "not_connected", raw |-> PyNone, exc |-> last_exception]}

\* C21: on a device with no successful ssh_connect since it was constructed
\* or last disconnected (never connected, connect failed, or disconnected),
\* the first _run_command of auto_discovery sends nothing and returns None,
\* and the run ends there, returning with one command attempted and the
\* snapshot as it was when the run started.
C21_NoSessionNoSend ==
    /\ [][(pc = "show_version" /\ last_connected_at = "None")
             => /\ raw' = PyNone
                /\ cmds' = <<[command |-> SHOW_VERSION, use_textfsm |-> TRUE,
                              status |-> "not_connected"]>>]_vars
    /\ []((pc = "done" /\ last_connected_at = "None")
             => /\ result.kind = "returned"
                /\ result.at = "select_record"
                /\ Len(cmds) = 1
                /\ Snapshot = snap0)

\* C22: connection_attempts equals the number of ssh_connect calls made so
\* far, failed ones included: every step either is an ssh_connect call and
\* adds exactly one, or leaves the counter as it was; no ssh_disconnect,
\* _run_command or auto_discovery step lowers or resets it.
C22_AttemptsCountCalls ==
    /\ [](connection_attempts = connects)
    /\ [][\/ /\ connects' = connects + 1
             /\ connection_attempts' = connection_attempts + 1
             /\ result'.op = "ssh_connect"
          \/ /\ connects' = connects
             /\ connection_attempts' = connection_attempts]_vars

\* C22 witness: two calls counted, one that opened the session and one that
\* raised, with a discovery run that populated fields and a disconnect
\* between them.
C22_Witness ==
    /\ connection_attempts = 2
    /\ connects = 2
    /\ result.op = "ssh_connect"
    /\ result.kind = "raised"
    /\ last_connected_at = "None"
    /\ written # EmptyDict

\* C23: after ssh_disconnect, last_connected_at is None and the transport
\* holds no connection object; and as long as there has been no successful
\* ssh_connect since, is_connected is false whatever the probe would answer
\* and _run_command can send nothing.
C23_DisconnectClears ==
    /\ (result.op = "ssh_disconnect")
          => (last_connected_at = "None" /\ ~connection)
    /\ (last_connected_at = "None")
          => /\ \A prompt_ok \in BOOLEAN : ~is_connected(prompt_ok)
             /\ _run_command(SHOW_VERSION, TRUE) = NothingSent

====
